---- MODULE Spec2Model ----
(***************************************************************************)
(* A model of brunetto/hang: the route registry and dispatcher of          *)
(* src/hang.go (with the later revision of src/unnamed/part_000, whose     *)
(* Handle normalises the path with GetRoute), the shutdown listeners       *)
(* armed by NewHandler and LogStartAndStop, and the request-body helpers   *)
(* GetReqData, GetReqJSONData and Tee.                                     *)
(*                                                                         *)
(* Strings are sequences of one-character strings, so that removing or     *)
(* trimming '/' is computed and not assumed.                               *)
(***************************************************************************)
EXTENDS Integers, Sequences, FiniteSets

VARIABLES
  Routes,      \* Handler.Routes: map[string]HandleFunc
  last,        \* the last registry/dispatch call and what it returned
  lpc,         \* shutdown listeners: kind and position of each goroutine
  chan,        \* the listeners' signal channels (capacity 1): items buffered
  signals,     \* termination signals the OS has delivered so far
  stopLogs,    \* "<name>: stopped by the user" lines logged so far
  exited,      \* os.Exit has been called
  exitCode,    \* its argument
  served,      \* requests dispatched by Handle so far
  lateServed,  \* requests dispatched after a listener had received the signal
  reqBody,     \* req.Body: NoBody, or a reader over bytes
  sent,        \* the bytes the client put in the request body
  resp,        \* the http.ResponseWriter: NoResp, or what was written to it
  ret          \* the last body-helper call and what it returned

regVars  == <<Routes, last>>
shutVars == <<lpc, chan, signals, stopLogs, exited, exitCode, served, lateServed>>
bodyVars == <<reqBody, sent, resp, ret>>
vars     == <<Routes, last, lpc, chan, signals, stopLogs, exited, exitCode,
              served, lateServed, reqBody, sent, resp, ret>>

(***************************************************************************)
(* Strings                                                                 *)
(***************************************************************************)
Slash == "/"

\* strings.Replace(s, "/", "", -1)
RECURSIVE StripSlashes(_)
StripSlashes(s) ==
  IF s = <<>> THEN <<>>
  ELSE IF Head(s) = Slash THEN StripSlashes(Tail(s))
  ELSE <<Head(s)>> \o StripSlashes(Tail(s))

\* strings.TrimLeft(s, "/")
RECURSIVE TrimLeft(_)
TrimLeft(s) ==
  IF s = <<>> THEN <<>>
  ELSE IF Head(s) = Slash THEN TrimLeft(Tail(s))
  ELSE s

\* strings.TrimRight(s, "/")
RECURSIVE TrimRight(_)
TrimRight(s) ==
  IF s = <<>> THEN <<>>
  ELSE IF s[Len(s)] = Slash THEN TrimRight(SubSeq(s, 1, Len(s) - 1))
  ELSE s

\* GetRoute of the later revision: trims, keeps inner slashes
GetRoute(path) == TrimLeft(TrimRight(path))

(***************************************************************************)
(* Inputs                                                                  *)
(***************************************************************************)
DefaultRoute   == <<"d", "e", "f", "a", "u", "l", "t">>
LiveCheckRoute == <<"l", "i", "v", "e", "c", "h", "e", "c", "k">>

\* route strings a service hands to AddRoute/ModifyRoute/DeleteRoute
UserRoutes ==
  { <<>>, <<"a">>, <<"a", "b">>, <<"a", "/", "b">>, <<"a", "/">> }

RouteArgs == UserRoutes \cup {DefaultRoute, LiveCheckRoute}

\* req.URL.Path of the requests: "/" + r
PathOf(r) == <<Slash>> \o r
Paths == { PathOf(r) : r \in RouteArgs }

\* handlers of the service: one that returns nil, one that returns an error
UserHandlers == {"H1", "HErr"}

\* user routes the model lets the registry hold at once
MaxUserRoutes == 2

StatusOK == 200
StatusBadRequest == 400
StatusInternalServerError == 500

(***************************************************************************)
(* Handlers                                                                *)
(***************************************************************************)
NotFoundText == "Route not found: "

\* what a handler leaves on a response it did not write to
Unwritten == [status |-> 0, body |-> <<>>, err |-> "nil"]

\* RouteNotSet: 400 and "Route not found: " + the normalised path p
RouteNotSet(p) ==
  [status |-> StatusBadRequest, body |-> <<NotFoundText>> \o p, err |-> "nil"]

\* LiveCheck: 200 and "OK"
LiveCheck ==
  [status |-> StatusOK, body |-> <<"OK">>, err |-> "nil"]

\* the call handler(resp, req) of Handle, for the handler named h
Invoke(h, p) ==
  CASE h = "RouteNotSet" -> RouteNotSet(p)
    [] h = "LiveCheck"   -> LiveCheck
    [] h = "H1"          -> Unwritten
    [] h = "HErr"        -> [Unwritten EXCEPT !.err = "handler error"]

(***************************************************************************)
(* Route registry                                                          *)
(***************************************************************************)
EmptyRoutes == [k \in {} |-> "none"]

Put(R, route, h) ==
  [k \in DOMAIN R \cup {route} |-> IF k = route THEN h ELSE R[k]]

Remove(R, route) ==
  [k \in DOMAIN R \ {route} |-> R[k]]

\* a faulty AddRoute: reports the duplicate and still overwrites the entry
AddRouteOverwrites(R, route, h) ==
  [err |-> IF route \in DOMAIN R THEN "DuplicateRoute" ELSE "nil",
   routes |-> Put(R, route, h)]

\* AddRoute: an error if the route exists, else the route is inserted
AddRouteResult(R, route, h) ==
  IF route \in DOMAIN R
    THEN [err |-> "DuplicateRoute", routes |-> R]
    ELSE [err |-> "nil", routes |-> Put(R, route, h)]

\* DeleteRoute: delete(h.Routes, route)
DeleteRouteResult(R, route) == Remove(R, route)

\* a faulty ModifyRoute: reports the missing route and still inserts it
ModifyRouteInserts(R, route, h) ==
  [err |-> IF route \notin DOMAIN R THEN "RouteNotFound" ELSE "nil",
   routes |-> Put(R, route, h)]

\* ModifyRoute: an error if the route does not exist, else it is rebound
ModifyRouteResult(R, route, h) ==
  IF route \notin DOMAIN R
    THEN [err |-> "RouteNotFound", routes |-> R]
    ELSE [err |-> "nil", routes |-> Put(R, route, h)]

\* NewHandler: the registry it returns
NewHandlerRoutes ==
  AddRouteResult(
    AddRouteResult(EmptyRoutes, DefaultRoute, "RouteNotSet").routes,
    LiveCheckRoute, "LiveCheck").routes

(***************************************************************************)
(* Dispatcher                                                              *)
(***************************************************************************)
\* Handle, once the path is normalised to p: the matching route's handler
\* is called and its error logged; with no match h.Routes["default"] is
\* called and its error dropped; a nil map entry called is a panic.
HandleOutcome(R, p) ==
  IF p \in DOMAIN R
    THEN LET r == Invoke(R[p], p) IN
         [invoked |-> R[p], matched |-> TRUE, status |-> r.status,
          body |-> r.body, returned |-> r.err,
          logged |-> IF r.err # "nil" THEN r.err ELSE "none",
          panicked |-> FALSE]
    ELSE IF DefaultRoute \in DOMAIN R
      THEN LET r == Invoke(R[DefaultRoute], p) IN
           [invoked |-> R[DefaultRoute], matched |-> FALSE,
            status |-> r.status, body |-> r.body, returned |-> r.err,
            logged |-> "none", panicked |-> FALSE]
      ELSE [invoked |-> "none", matched |-> FALSE, status |-> 0,
            body |-> <<>>, returned |-> "nil", logged |-> "none",
            panicked |-> TRUE]

\* src/hang.go normalises by removing every '/'
HandlePath(path) == StripSlashes(path)

\* the later revision normalises with GetRoute
HandleGetRoutePath(path) == GetRoute(path)

(***************************************************************************)
(* Registry and dispatch: state and actions                                *)
(***************************************************************************)
NoCall ==
  [op |-> "NewHandler", route |-> <<>>, path |-> <<>>, handler |-> "none",
   err |-> "nil", invoked |-> "none", matched |-> FALSE, status |-> 0,
   body |-> <<>>, returned |-> "nil", logged |-> "none",
   panicked |-> FALSE]

UserRouteCount(R) == Cardinality(DOMAIN R \cap UserRoutes)

AddRoute(route, h) ==
  /\ \/ route \in DOMAIN Routes
     \/ route \notin UserRoutes
     \/ UserRouteCount(Routes) < MaxUserRoutes
  /\ LET res == AddRouteResult(Routes, route, h) IN
       /\ Routes' = res.routes
       /\ last' = [NoCall EXCEPT !.op = "AddRoute", !.route = route,
                                 !.handler = h, !.err = res.err]
  /\ UNCHANGED <<shutVars, bodyVars>>

DeleteRoute(route) ==
  /\ Routes' = DeleteRouteResult(Routes, route)
  /\ last' = [NoCall EXCEPT !.op = "DeleteRoute", !.route = route]
  /\ UNCHANGED <<shutVars, bodyVars>>

ModifyRoute(route, h) ==
  LET res == ModifyRouteResult(Routes, route, h) IN
    /\ Routes' = res.routes
    /\ last' = [NoCall EXCEPT !.op = "ModifyRoute", !.route = route,
                              !.handler = h, !.err = res.err]
    /\ UNCHANGED <<shutVars, bodyVars>>

Dispatched(op, path, p) ==
  LET o == HandleOutcome(Routes, p) IN
    /\ last' = [NoCall EXCEPT !.op = op, !.route = p, !.path = path,
                              !.invoked = o.invoked, !.matched = o.matched,
                              !.status = o.status, !.body = o.body,
                              !.returned = o.returned,
                              !.logged = o.logged, !.panicked = o.panicked]
    /\ UNCHANGED <<Routes, shutVars, bodyVars>>

Handle(path) == Dispatched("Handle", path, HandlePath(path))

HandleGetRoute(path) ==
  Dispatched("HandleGetRoute", path, HandleGetRoutePath(path))

(***************************************************************************)
(* Shutdown listeners                                                      *)
(***************************************************************************)
MaxListeners == 2   \* listeners armed in the process
MaxSignals   == 2   \* termination signals delivered
MaxRequests  == 2   \* requests dispatched

Listeners == 1..MaxListeners

\* log: the logger the goroutine will call is set
Unarmed == [kind |-> "none", pc |-> "unarmed", log |-> FALSE]

\* a listener that has taken the signal off its channel
Triggered(i) == lpc[i].pc \in {"triggered", "logged", "exited", "panicked"}

\* the listener whose goroutine ended the process
Ended(i) == lpc[i].pc \in {"exited", "panicked"}

\* signal.Notify(c, ...) and go ...: NewHandler and LogStartAndStop each
\* arm one more listener on a channel of its own
Arm(kind, log) ==
  /\ ~exited
  /\ \E i \in Listeners :
       /\ lpc[i].pc = "unarmed"
       /\ \A j \in Listeners : j < i => lpc[j].pc # "unarmed"
       /\ lpc' = [lpc EXCEPT ![i] = [kind |-> kind, pc |-> "armed", log |-> log]]
  /\ UNCHANGED <<chan, signals, stopLogs, exited, exitCode, served, lateServed,
               regVars, bodyVars>>

\* NewHandler up to go h.WaitForShutdown(): the goroutine is started
\* while h.Log is still nil
NewHandler == Arm("NewHandler", FALSE)

\* the rest of NewHandler: h.Log = lg, with nothing ordering it against
\* the goroutine's read of h.Log
NewHandlerReturn(i) ==
  /\ ~exited
  /\ lpc[i].kind = "NewHandler"
  /\ lpc[i].pc # "unarmed"
  /\ ~lpc[i].log
  /\ lpc' = [lpc EXCEPT ![i].log = TRUE]
  /\ UNCHANGED <<chan, signals, stopLogs, exited, exitCode, served, lateServed,
               regVars, bodyVars>>

\* the goroutine of LogStartAndStop is handed the logger as an argument
LogStartAndStop == Arm("LogStartAndStop", TRUE)

\* the OS delivers SIGINT/SIGTERM: os/signal sends it, without blocking,
\* on every channel registered with Notify
Signal ==
  /\ ~exited
  /\ signals < MaxSignals
  /\ signals' = signals + 1
  /\ chan' = [i \in Listeners |-> IF lpc[i].pc # "unarmed" THEN 1 ELSE chan[i]]
  /\ UNCHANGED <<lpc, stopLogs, exited, exitCode, served, lateServed,
               regVars, bodyVars>>

\* WaitForShutdown: <-h.c
WaitForShutdown(i) ==
  /\ ~exited
  /\ lpc[i].pc = "armed"
  /\ chan[i] > 0
  /\ chan' = [chan EXCEPT ![i] = chan[i] - 1]
  /\ lpc' = [lpc EXCEPT ![i].pc = "triggered"]
  /\ UNCHANGED <<signals, stopLogs, exited, exitCode, served, lateServed,
               regVars, bodyVars>>

\* WaitForShutdown: h.Log.Infof("%v: stopped by the user", ...).  With
\* h.Log still nil the call panics in the goroutine: the runtime ends the
\* process with status 2 and no line is written
LogStopped(i) ==
  /\ ~exited
  /\ lpc[i].pc = "triggered"
  /\ IF lpc[i].log
       THEN /\ stopLogs' = stopLogs + 1
            /\ lpc' = [lpc EXCEPT ![i].pc = "logged"]
            /\ UNCHANGED <<exited, exitCode>>
       ELSE /\ exited' = TRUE
            /\ exitCode' = 2
            /\ lpc' = [lpc EXCEPT ![i].pc = "panicked"]
            /\ UNCHANGED stopLogs
  /\ UNCHANGED <<chan, signals, served, lateServed, regVars, bodyVars>>

\* WaitForShutdown: os.Exit(0)
Exit(i) ==
  /\ ~exited
  /\ lpc[i].pc = "logged"
  /\ exited' = TRUE
  /\ exitCode' = 0
  /\ lpc' = [lpc EXCEPT ![i].pc = "exited"]
  /\ UNCHANGED <<chan, signals, stopLogs, served, lateServed,
               regVars, bodyVars>>

\* NewDefaultLogger: when the log file cannot be created logrus.Fatal
\* ends the process with os.Exit(1); no signal and no listener is involved
NewDefaultLogger ==
  /\ ~exited
  /\ \E created \in BOOLEAN :
       IF created
         THEN UNCHANGED <<exited, exitCode>>
         ELSE exited' = TRUE /\ exitCode' = 1
  /\ UNCHANGED <<lpc, chan, signals, stopLogs, served, lateServed,
               regVars, bodyVars>>

\* a request task of the HTTP server runs Handle; nothing in Handle looks
\* at the listeners
Serve ==
  /\ ~exited
  /\ served < MaxRequests
  /\ served' = served + 1
  /\ lateServed' = IF \E i \in Listeners : Triggered(i)
                     THEN lateServed + 1 ELSE lateServed
  /\ UNCHANGED <<lpc, chan, signals, stopLogs, exited, exitCode,
               regVars, bodyVars>>

(***************************************************************************)
(* Request body helpers                                                    *)
(***************************************************************************)
MaxBody  == 2   \* bytes in a request body
MaxCalls == 3   \* helper calls made on one request

Bytes == {"{", "}", "1"}

BodyContents == UNION { [1..n -> Bytes] : n \in 0..MaxBody }

\* how the reader under req.Body ends: "none" with io.EOF (a clean end),
\* "EOF" with an error whose text is "EOF", "other" with any other error
Faults == {"none", "EOF", "other"}

\* nop: Close does nothing (ioutil.NopCloser); otherwise Close ends the
\* body, as on the body the HTTP server hands to a handler
NoBody == [present |-> FALSE, data |-> <<>>, pos |-> 0, fault |-> "none",
           closed |-> FALSE, nop |-> FALSE]

NoResp == [present |-> FALSE, status |-> 0, body |-> <<>>]

NewResp == [NoResp EXCEPT !.present = TRUE]

\* ioutil.ReadAll(body): the bytes left, the reader's error, the reader after
ReadAll(b) ==
  IF b.closed
    THEN [bytes |-> <<>>, err |-> "other", body |-> b]
    ELSE [bytes |-> SubSeq(b.data, b.pos + 1, Len(b.data)),
          err   |-> IF b.fault = "none" THEN "nil" ELSE b.fault,
          body  |-> [b EXCEPT !.pos = Len(b.data)]]

\* ioutil.NopCloser(bytes.NewBuffer(bs)): a drained buffer reads as
\* empty with no error, closed or not
NewBuffer(bs) ==
  [present |-> TRUE, data |-> bs, pos |-> 0, fault |-> "none", closed |-> FALSE,
   nop |-> TRUE]

\* req.Body.Close()
Close(b) == IF b.nop THEN b ELSE [b EXCEPT !.closed = TRUE]

\* resp.WriteHeader(status); resp.Write(text): the first status stands
WriteResp(rp, status, text) ==
  [rp EXCEPT !.status = IF rp.status = 0 THEN status ELSE rp.status,
             !.body = rp.body \o <<text>>]

\* json.Unmarshal accepts the text: over Bytes, a number or the empty object
ValidJSON(bs) ==
  \/ Len(bs) >= 1 /\ \A i \in 1..Len(bs) : bs[i] = "1"
  \/ bs = <<"{", "}">>

Panic(rp, b) ==
  [bytes |-> <<>>, err |-> "nil", wrote |-> 0, resp |-> rp, body |-> b,
   panicked |-> TRUE]

\* a faulty failure path: the error is returned and nothing is written
FailSilently(rp, b, bs, err, status) ==
  IF ~rp.present THEN Panic(rp, b)
  ELSE [bytes |-> bs, err |-> err, wrote |-> 0, resp |-> rp, body |-> b,
        panicked |-> FALSE]

\* a failure path: the status and the error text are written to resp, and
\* a nil resp is dereferenced
FailWith(rp, b, bs, err, status) ==
  IF ~rp.present THEN Panic(rp, b)
  ELSE [bytes |-> bs, err |-> err, wrote |-> status,
        resp |-> WriteResp(rp, status, err), body |-> b, panicked |-> FALSE]

\* GetReqData(resp, req)
GetReqData(rp, b) ==
  IF ~b.present
    THEN FailWith(rp, b, <<>>, "Missing input data", StatusBadRequest)
    ELSE LET ra == ReadAll(b) IN
      IF ra.err # "nil"
        THEN IF ra.err = "EOF"
          THEN FailWith(rp, ra.body, ra.bytes, "EOF error reading JSON",
                        StatusInternalServerError)
          ELSE FailWith(rp, ra.body, ra.bytes, "error reading request body",
                        StatusBadRequest)
        ELSE [bytes |-> ra.bytes, err |-> "nil", wrote |-> 0, resp |-> rp,
              body |-> Close(ra.body), panicked |-> FALSE]

\* GetReqJSONData(resp, req, data)
GetReqJSONData(rp, b) ==
  LET d == GetReqData(rp, b) IN
    IF d.panicked \/ d.err # "nil" THEN d
    ELSE IF ~ValidJSON(d.bytes)
      THEN IF rp.present
        THEN [d EXCEPT !.err = "can't decode input JSON",
                       !.wrote = StatusBadRequest,
                       !.resp = WriteResp(rp, StatusBadRequest,
                                          "can't decode input JSON")]
        ELSE [d EXCEPT !.err = "can't decode input JSON"]
      ELSE d

\* a faulty Tee: returns the bytes and leaves the reader drained
TeeDrains(rp, b) ==
  IF ~b.present THEN Panic(rp, b)
  ELSE LET ra == ReadAll(b) IN
    [bytes |-> ra.bytes, err |-> "nil", wrote |-> 0, resp |-> rp,
     body |-> ra.body, panicked |-> FALSE]

\* Tee(&req.Body): reads all, drops the error, puts a buffer of the bytes back
Tee(rp, b) ==
  IF ~b.present THEN Panic(rp, b)
  ELSE LET ra == ReadAll(b) IN
    [bytes |-> ra.bytes, err |-> "nil", wrote |-> 0, resp |-> rp,
     body |-> NewBuffer(ra.bytes), panicked |-> FALSE]

\* a handler reads the body to the end itself: ioutil.ReadAll(req.Body)
ReadBody(rp, b) ==
  IF ~b.present THEN Panic(rp, b)
  ELSE LET ra == ReadAll(b) IN
    [bytes |-> ra.bytes, err |-> ra.err, wrote |-> 0, resp |-> rp,
     body |-> ra.body, panicked |-> FALSE]

NoRet == [op |-> "none", bytes |-> <<>>, err |-> "nil", wrote |-> 0,
          panicked |-> FALSE, calls |-> 0, tees |-> 0, reads |-> 0]

\* one helper call on the current request; r is what the helper returned
Call(op, r) ==
  /\ ~ret.panicked
  /\ ret.calls < MaxCalls
  /\ reqBody' = r.body
  /\ resp' = r.resp
  /\ ret' = [op |-> op, bytes |-> r.bytes, err |-> r.err, wrote |-> r.wrote,
             panicked |-> r.panicked, calls |-> ret.calls + 1,
             tees  |-> IF op = "Tee" THEN ret.tees + 1 ELSE ret.tees,
             reads |-> IF op = "Tee" THEN ret.reads ELSE ret.reads + 1]
  /\ UNCHANGED <<sent, regVars, shutVars>>

CallGetReqData == Call("GetReqData", GetReqData(resp, reqBody))

CallGetReqJSONData == Call("GetReqJSONData", GetReqJSONData(resp, reqBody))

CallTee == Call("Tee", Tee(resp, reqBody))

CallReadBody == Call("ReadBody", ReadBody(resp, reqBody))

\* the requests the helpers are called on: no body, or a body of the
\* bytes sent over a reader that ends in fault f, closable or not
Requests ==
  { [body |-> NoBody, sent |-> <<>>] }
  \cup { [body |-> [NewBuffer(bs) EXCEPT !.fault = f, !.nop = n], sent |-> bs] :
           bs \in BodyContents, f \in Faults, n \in BOOLEAN }

NewRequest ==
  \E q \in Requests, rp \in {NoResp, NewResp} :
    /\ reqBody' = q.body
    /\ sent' = q.sent
    /\ resp' = rp
    /\ ret' = NoRet
    /\ UNCHANGED <<regVars, shutVars>>

(***************************************************************************)
(* Specifications                                                          *)
(***************************************************************************)
RegInit ==
  /\ Routes = NewHandlerRoutes
  /\ last = NoCall

\* NewHandler has armed its listener
ShutInit ==
  /\ lpc = [i \in Listeners |->
              IF i = 1 THEN [kind |-> "NewHandler", pc |-> "armed", log |-> TRUE]
                       ELSE Unarmed]
  /\ chan = [i \in Listeners |-> 0]
  /\ signals = 0
  /\ stopLogs = 0
  /\ exited = FALSE
  /\ exitCode = -1
  /\ served = 0
  /\ lateServed = 0

BodyIdle ==
  /\ reqBody = NoBody
  /\ sent = <<>>
  /\ resp = NoResp
  /\ ret = NoRet

Init == RegInit /\ ShutInit /\ BodyIdle

\* the registry and the dispatcher
Next ==
  \/ \E route \in RouteArgs, h \in UserHandlers : AddRoute(route, h)
  \/ \E route \in RouteArgs : DeleteRoute(route)
  \/ \E route \in RouteArgs, h \in UserHandlers : ModifyRoute(route, h)
  \/ \E path \in Paths : Handle(path)
  \/ \E path \in Paths : HandleGetRoute(path)

Spec == Init /\ [][Next]_vars

\* the shutdown listeners beside the request tasks
NextShutdown ==
  \/ NewHandler
  \/ LogStartAndStop
  \/ Signal
  \/ \E i \in Listeners : NewHandlerReturn(i)
  \/ \E i \in Listeners : WaitForShutdown(i)
  \/ \E i \in Listeners : LogStopped(i)
  \/ \E i \in Listeners : Exit(i)
  \/ NewDefaultLogger
  \/ Serve

SpecShutdown == Init /\ [][NextShutdown]_vars

\* the body helpers on one request after another
InitBody ==
  /\ RegInit
  /\ ShutInit
  /\ \E q \in Requests, rp \in {NoResp, NewResp} :
       /\ reqBody = q.body
       /\ sent = q.sent
       /\ resp = rp
  /\ ret = NoRet

NextBody ==
  \/ CallGetReqData
  \/ CallGetReqJSONData
  \/ CallTee
  \/ CallReadBody
  \/ NewRequest

SpecBody == InitBody /\ [][NextBody]_vars

(***************************************************************************)
(* Properties of the registry and the dispatcher (Spec)                    *)
(***************************************************************************)
HandleOps == {"Handle", "HandleGetRoute"}

\* every request whose normalised path is route r is answered, in registry
\* R, by the handler h bound to the matching route, under both revisions
DispatchesTo(R, r, h) ==
  /\ \A p \in Paths : HandlePath(p) = r =>
       LET o == HandleOutcome(R, HandlePath(p)) IN o.matched /\ o.invoked = h
  /\ \A p \in Paths : HandleGetRoutePath(p) = r =>
       LET o == HandleOutcome(R, HandleGetRoutePath(p)) IN
         o.matched /\ o.invoked = h

\* the request for URL path "/" + r is answered by h, under both revisions
PathDispatchesTo(R, r, h) ==
  /\ LET o == HandleOutcome(R, HandlePath(PathOf(r))) IN
       o.matched /\ o.invoked = h
  /\ LET o == HandleOutcome(R, HandleGetRoutePath(PathOf(r))) IN
       o.matched /\ o.invoked = h

\* every request whose normalised path is r falls through to the handler
\* bound to "default"
FallsToDefault(R, r) ==
  /\ \A p \in Paths : HandlePath(p) = r =>
       LET o == HandleOutcome(R, HandlePath(p)) IN
         ~o.panicked /\ ~o.matched /\ o.invoked = R[DefaultRoute]
  /\ \A p \in Paths : HandleGetRoutePath(p) = r =>
       LET o == HandleOutcome(R, HandleGetRoutePath(p)) IN
         ~o.panicked /\ ~o.matched /\ o.invoked = R[DefaultRoute]

\* C1: for every route r that is not registered, slashes or not,
\* AddRoute(r, h) returns no error and the request for "/" + r then
\* invokes h.
C1_AddThenRequestInvokes ==
  [][ (last'.op = "AddRoute" /\ last'.route \notin DOMAIN Routes) =>
        /\ last'.err = "nil"
        /\ PathDispatchesTo(Routes', last'.route, last'.handler) ]_vars

\* C2: AddRoute(r, h2) on a registered route r returns the duplicate-route
\* error and leaves the registry as it was, so that a request for r is
\* still answered by the handler r was bound to.
C2_DuplicateAddChangesNothing ==
  [][ (last'.op = "AddRoute" /\ last'.route \in DOMAIN Routes) =>
        /\ last'.err = "DuplicateRoute"
        /\ Routes' = Routes
        /\ DispatchesTo(Routes', last'.route, Routes[last'.route]) ]_vars

\* C2 witness: a duplicate AddRoute was refused for a route a request can
\* name, with a handler other than the one bound
C2_Witness ==
  /\ last.op = "AddRoute"
  /\ last.err = "DuplicateRoute"
  /\ last.route = <<"a">>
  /\ last.handler = "HErr"
  /\ Routes[last.route] = "H1"

\* C3: ModifyRoute(r, h) on an unregistered r returns the route-not-found
\* error and changes nothing; on a registered r it returns no error and
\* rebinds r to h alone, so that a request for r is answered by h.
C3_ModifyRoute ==
  [][ last'.op = "ModifyRoute" =>
        IF last'.route \notin DOMAIN Routes
          THEN /\ last'.err = "RouteNotFound"
               /\ Routes' = Routes
          ELSE /\ last'.err = "nil"
               /\ DOMAIN Routes' = DOMAIN Routes
               /\ Routes'[last'.route] = last'.handler
               /\ \A k \in DOMAIN Routes \ {last'.route} : Routes'[k] = Routes[k]
               /\ DispatchesTo(Routes', last'.route, last'.handler) ]_vars

\* C3 witness: a registered route a request can name was rebound
C3_Witness ==
  /\ last.op = "ModifyRoute"
  /\ last.err = "nil"
  /\ last.route = <<"a">>
  /\ last.handler = "HErr"
  /\ Routes[last.route] = "HErr"
  /\ Cardinality(DOMAIN Routes) > 3

\* C4: DeleteRoute(r) twice leaves the registry that DeleteRoute(r) once
\* leaves, whether r was registered or not, and after it a request for r
\* is answered by the default handler.
C4_DeleteIdempotentThenDefault ==
  [][ last'.op = "DeleteRoute" =>
        /\ last'.route \notin DOMAIN Routes'
        /\ DeleteRouteResult(Routes', last'.route) = Routes'
        /\ FallsToDefault(Routes', last'.route) ]_vars

\* C5: whatever AddRoute, ModifyRoute and DeleteRoute calls came before, a
\* request whose normalised path is not registered gets status 400 and a
\* body of "Route not found" and the path.
C5_UnmatchedGets400 ==
  (last.op \in HandleOps /\ last.route \notin DOMAIN Routes) =>
    /\ last.status = StatusBadRequest
    /\ Len(last.body) >= 1
    /\ last.body[1] = NotFoundText
    /\ SubSeq(last.body, 2, Len(last.body)) = last.route

\* C6: the registry always holds the keys "default" and "livecheck".
C6_ReservedRoutesPresent ==
  {DefaultRoute, LiveCheckRoute} \subseteq DOMAIN Routes

\* C7: Handle returns normally, without a panic, for every request in
\* every registry state.
C7_HandleNeverPanics ==
  last.op \in HandleOps => ~last.panicked

\* C11: every call of Handle that returns has invoked one handler, and an
\* error that handler returned has been logged, whether the handler was
\* reached by a matching route or as the "default" fallback.
C11_HandlerErrorLogged ==
  (last.op \in HandleOps /\ ~last.panicked) =>
    /\ last.invoked # "none"
    /\ last.returned # "nil" => last.logged = last.returned

(***************************************************************************)
(* Properties of the shutdown listeners (SpecShutdown)                     *)
(***************************************************************************)
\* C8: a termination signal yields exactly one "stopped by the user" line
\* and then exit code 0, and no request is dispatched once a listener has
\* received the signal, however many listeners are armed: at most one line
\* is ever written, a listener that ends the process has written the one
\* line and exits with 0, and no request is served after a listener took
\* the signal.
C8_OneLogLineThenExit ==
  /\ stopLogs <= 1
  /\ (\E i \in Listeners : Ended(i)) => (stopLogs = 1 /\ exitCode = 0)
  /\ lateServed = 0

(***************************************************************************)
(* Properties of the body helpers (SpecBody)                               *)
(***************************************************************************)
ExtractorOps == {"GetReqData", "GetReqJSONData"}

\* what GetReqData and GetReqJSONData owe their caller on the step that
\* calls them: the status per failure, the response written exactly when
\* the error is non-nil
ExtractorContract ==
  /\ ~reqBody.present =>
       ret'.err = "Missing input data" /\ ret'.wrote = StatusBadRequest
  /\ (reqBody.present /\ ReadAll(reqBody).err = "EOF") =>
       ret'.err # "nil" /\ ret'.wrote = StatusInternalServerError
  /\ (reqBody.present /\ ReadAll(reqBody).err \notin {"nil", "EOF"}) =>
       ret'.err # "nil" /\ ret'.wrote = StatusBadRequest
  /\ (/\ ret'.op = "GetReqJSONData"
      /\ reqBody.present
      /\ ReadAll(reqBody).err = "nil"
      /\ ~ValidJSON(ReadAll(reqBody).bytes)) =>
       ret'.err = "can't decode input JSON" /\ ret'.wrote = StatusBadRequest
  /\ ret'.err # "nil" =>
       /\ ret'.wrote # 0
       /\ resp'.status # 0
       /\ resp'.body = resp.body \o <<ret'.err>>
  /\ ret'.err = "nil" => (ret'.wrote = 0 /\ resp' = resp)

\* a step that is a call of GetReqData or GetReqJSONData
ExtractorCall == ret'.op \in ExtractorOps /\ ret'.calls = ret.calls + 1

\* C9 as stated: on every call that returns, whatever the response writer,
\* each failure path has written its status and success has written nothing.
C9_EveryFailureWrites ==
  [][ (ExtractorCall /\ ~ret'.panicked) => ExtractorContract ]_vars

\* C9 amended: a call that is given a response writer returns, each of its
\* failure paths has written its status and success has written nothing; a
\* call given no response writer that returns an error has written nothing.
C9_FailureWritesGivenWriter ==
  [][ ExtractorCall =>
        IF resp.present
          THEN ~ret'.panicked /\ ExtractorContract
          ELSE (~ret'.panicked /\ ret'.err # "nil") =>
                 (ret'.wrote = 0 /\ resp' = resp) ]_vars

\* C9 witness: GetReqJSONData failed to decode and wrote 400
C9_Witness ==
  /\ ret.op = "GetReqJSONData"
  /\ ret.err = "can't decode input JSON"
  /\ ret.wrote = StatusBadRequest
  /\ resp.present
  /\ resp.status = StatusBadRequest

\* C10: as long as only Tee has touched the body, Tee returns the bytes
\* the client sent and a read to the end still yields them, which is what
\* a read yields when Tee was never called.
C10_TeePreservesBody ==
  (/\ ret.op \in {"Tee", "ReadBody"}
   /\ ~ret.panicked
   /\ ret.reads = (IF ret.op = "ReadBody" THEN 1 ELSE 0)) =>
     ret.bytes = sent

\* C10 witness: a read to the end after two Tee calls on a non-empty body
C10_Witness ==
  /\ ret.op = "ReadBody"
  /\ ret.tees = 2
  /\ ret.reads = 1
  /\ Len(sent) >= 2
  /\ ret.bytes = sent

====
